---- MODULE Spec2Model ----
(***************************************************************************)
(* Model of back/back.py: the LRI (Landing Risk Index) backend.            *)
(*                                                                         *)
(* Python floats are modelled as exact rationals <<n, d>> with d > 0 in    *)
(* lowest terms; round(x, 2) is modelled as rounding to the nearest        *)
(* hundredth (ties to even).  A raised exception is modelled by a result   *)
(* whose status is the HTTP status the handler turns it into.              *)
(***************************************************************************)
EXTENDS Integers, Sequences, FiniteSets, TLC

-----------------------------------------------------------------------------
(* Exact rational arithmetic standing in for Python float arithmetic.      *)

Abs(x) == IF x < 0 THEN -x ELSE x

RECURSIVE Gcd(_, _)
Gcd(a, b) == IF b = 0 THEN a ELSE Gcd(b, a % b)

\* the rational n/d in lowest terms with a positive denominator (d # 0)
Rat(n, d) ==
    LET g == Gcd(Abs(n), Abs(d))
        s == IF d < 0 THEN -1 ELSE 1
    IN  << (s * n) \div g, (s * d) \div g >>

I(k)      == << k, 1 >>
Zero      == I(0)
Add(a, b) ==
    LET g == Gcd(a[2], b[2])
    IN  Rat(a[1] * (b[2] \div g) + b[1] * (a[2] \div g), (a[2] \div g) * b[2])
Neg(a)    == << -a[1], a[2] >>
Sub(a, b) == Add(a, Neg(b))
Mul(a, b) ==
    LET g1 == Gcd(Abs(a[1]), b[2])
        g2 == Gcd(Abs(b[1]), a[2])
    IN  Rat((a[1] \div g1) * (b[1] \div g2), (a[2] \div g2) * (b[2] \div g1))
\* a / b for b # 0 (the callers test for a zero divisor first)
Div(a, b) == Mul(a, IF b[1] < 0 THEN << -b[2], -b[1] >> ELSE << b[2], b[1] >>)
\* comparisons: by the integer parts, and within one unit by the fractions
Floor(a)  == a[1] \div a[2]
Lt(a, b)  ==
    IF Floor(a) # Floor(b) THEN Floor(a) < Floor(b)
    ELSE (a[1] % a[2]) * b[2] < (b[1] % b[2]) * a[2]
Le(a, b)  == ~Lt(b, a)
IsZero(a) == a[1] = 0
\* Python's min(a, b) and max(a, b): the first argument wins a tie
PyMin(a, b) == IF Lt(b, a) THEN b ELSE a
PyMax(a, b) == IF Lt(a, b) THEN b ELSE a

\* x rounded to the nearest multiple of 1/scale, ties to the even multiple
RoundTo(x, scale) ==
    LET whole == x[1] \div x[2]
        n     == scale * (x[1] % x[2])
        d     == x[2]
        q     == n \div d
        rem   == n % d
        up    == (2 * rem > d) \/ (2 * rem = d /\ q % 2 = 1)
    IN  Add(I(whole), Rat(IF up THEN q + 1 ELSE q, scale))

\* round(x, 2) and the format specs .1f, .2f and .4f
Round2(x) == RoundTo(x, 100)
Fmt1(x)   == RoundTo(x, 10)
Fmt2(x)   == RoundTo(x, 100)
Fmt4(x)   == RoundTo(x, 10000)

-----------------------------------------------------------------------------
(* Module constants of back.py.                                            *)

W_W == Rat(45, 100)
W_N == Rat(35, 100)
W_T == Rat(20, 100)
AL_H == 40
AL_V == 50
TAU_RED == 60
TAU_YELLOW == 80

GradeHardStop == "RED (HARD STOP)"
GradeSevere   == "YELLOW (SEVERE)"
GradeWarning  == "BLUE (WARNING)"
GradeBest     == "GREEN (VERY GOOD)"

-----------------------------------------------------------------------------
(* MeasurementRecord: a dict; a key the dict lacks is modelled by Absent.  *)

Absent == << 0, 0 >>

Fields == {"actual_visibility", "required_visibility", "alpha_cloud", "HPL",
           "VPL", "alpha_terrain", "r_och_neg", "CTBT", "delta_sigma_0",
           "core_percent"}

\* dict.get(key, default)
Get(data, key, default) == IF data[key] = Absent THEN default ELSE data[key]

-----------------------------------------------------------------------------
(* calculate_lri(data): the scorer.  The value is the returned dict with   *)
(* status 200, or [status |-> 500] when the try block raises and the       *)
(* except clause turns the exception into HTTPException(500).              *)

\* the except clause answering a fallback score instead of raising
InternalError_Fallback ==
    [status |-> 200, LRI |-> Zero, Grade |-> GradeSevere, HardStop |-> FALSE]

InternalError == [status |-> 500]

\* W = 100 * min(1, p / p_req) * (1 - alpha_cloud); p_req # 0
WeatherScore(data) ==
    LET p           == Get(data, "actual_visibility", I(50))
        p_req       == Get(data, "required_visibility", I(30))
        alpha_cloud == Get(data, "alpha_cloud", Rat(1, 10))
    IN  Mul(Mul(I(100), PyMin(I(1), Div(p, p_req))), Sub(I(1), alpha_cloud))

\* N = 100 - (50 * max(0, (HPL - AL_H) / 20) + 50 * max(0, (VPL - AL_V) / 20))
NavigationScore(data) ==
    LET HPL == Get(data, "HPL", I(35))
        VPL == Get(data, "VPL", I(45))
    IN  Sub(I(100),
            Add(Mul(I(50), PyMax(Zero, Div(Sub(HPL, I(AL_H)), I(20)))),
                Mul(I(50), PyMax(Zero, Div(Sub(VPL, I(AL_V)), I(20))))))

\* T = 100 * W_T * (1 - alpha_terrain) - 40 * r_och_neg
TerrainScore(data) ==
    LET alpha_terrain == Get(data, "alpha_terrain", Rat(5, 100))
        r_och_neg     == Get(data, "r_och_neg", Zero)
    IN  Sub(Mul(Mul(I(100), W_T), Sub(I(1), alpha_terrain)),
            Mul(I(40), r_och_neg))

\* TerrainSafe without the floor of 5
TerrainSafe_NoFloor(T) == IF ~IsZero(W_T) THEN Div(T, W_T) ELSE Zero

\* T_norm = T / W_T if W_T != 0 else 0; T_safe = max(5, T_norm)
TerrainSafe(T) ==
    LET T_norm == IF ~IsZero(W_T) THEN Div(T, W_T) ELSE Zero
    IN  PyMax(I(5), T_norm)

\* the denominator W_W / W + W_N / N + W_T / T_safe, for W # 0 and N # 0
Denominator(W, N, T_safe) ==
    Add(Add(Div(W_W, W), Div(W_N, N)), Div(W_T, T_safe))

\* Composite without the clamp min(100, LRI)
Composite_NoClamp(den) == Round2(Div(I(100), den))

\* LRI = 100 / den; LRI = round(min(100, LRI), 2), for den # 0.
\* 100 / den >= 100 exactly when 0 < den <= 1, and then min(100, LRI) = 100;
\* the quotient is formed only where it is the smaller of the two.
Composite(den) ==
    IF Lt(Zero, den) /\ Le(den, I(1)) THEN Round2(I(100))
    ELSE Round2(PyMin(I(100), Div(I(100), den)))

\* IsHardStop without the cloud-top temperature rule
IsHardStop_NoCTBT(data) ==
    LET HPL           == Get(data, "HPL", I(35))
        VPL           == Get(data, "VPL", I(45))
        delta_sigma_0 == Get(data, "delta_sigma_0", Zero)
        core_percent  == Get(data, "core_percent", Zero)
    IN  \/ (Lt(I(AL_H), HPL) /\ Lt(I(AL_V), VPL))
        \/ (Lt(I(3), delta_sigma_0) /\ Le(I(30), core_percent))

\* IsHardStop with HPL and VPL joined by "or"
IsHardStop_EitherAxis(data) ==
    LET HPL           == Get(data, "HPL", I(35))
        VPL           == Get(data, "VPL", I(45))
        CTBT          == Get(data, "CTBT", I(273))
        delta_sigma_0 == Get(data, "delta_sigma_0", Zero)
        core_percent  == Get(data, "core_percent", Zero)
    IN  \/ Lt(CTBT, I(235))
        \/ (Lt(I(AL_H), HPL) \/ Lt(I(AL_V), VPL))
        \/ (Lt(I(3), delta_sigma_0) /\ Le(I(30), core_percent))

IsHardStop(data) ==
    LET HPL           == Get(data, "HPL", I(35))
        VPL           == Get(data, "VPL", I(45))
        CTBT          == Get(data, "CTBT", I(273))
        delta_sigma_0 == Get(data, "delta_sigma_0", Zero)
        core_percent  == Get(data, "core_percent", Zero)
    IN  \/ Lt(CTBT, I(235))
        \/ (Lt(I(AL_H), HPL) /\ Lt(I(AL_V), VPL))
        \/ (Lt(I(3), delta_sigma_0) /\ Le(I(30), core_percent))

\* GradeOf with the best tier tested before the hard-stop flag
GradeOf_LriFirst(is_hard_stop, LRI) ==
    IF Le(I(TAU_YELLOW), LRI) THEN GradeBest
    ELSE IF is_hard_stop THEN GradeHardStop
    ELSE IF Lt(LRI, I(TAU_RED)) THEN GradeSevere
    ELSE GradeWarning

\* GradeOf with the boundaries closed on the low side (<= for <)
GradeOf_Closed(is_hard_stop, LRI) ==
    IF is_hard_stop THEN GradeHardStop
    ELSE IF Le(LRI, I(TAU_RED)) THEN GradeSevere
    ELSE IF Le(LRI, I(TAU_YELLOW)) THEN GradeWarning
    ELSE GradeBest

GradeOf(is_hard_stop, LRI) ==
    IF is_hard_stop THEN GradeHardStop
    ELSE IF Lt(LRI, I(TAU_RED)) THEN GradeSevere
    ELSE IF Lt(LRI, I(TAU_YELLOW)) THEN GradeWarning
    ELSE GradeBest

calculate_lri(data) ==
    IF IsZero(Get(data, "required_visibility", I(30))) THEN InternalError
    ELSE
    LET W == WeatherScore(data)
        N == NavigationScore(data)
        T == TerrainScore(data)
    IN  IF IsZero(W) \/ IsZero(N) THEN InternalError
        ELSE
        LET den == Denominator(W, N, TerrainSafe(T))
        IN  IF IsZero(den) THEN InternalError
            ELSE
            LET LRI          == Composite(den)
                is_hard_stop == IsHardStop(data)
            IN  [status   |-> 200,
                 LRI      |-> LRI,
                 Grade    |-> GradeOf(is_hard_stop, LRI),
                 W_score  |-> Round2(W),
                 N_score  |-> Round2(N),
                 T_score  |-> Round2(T),
                 HardStop |-> is_hard_stop]

-----------------------------------------------------------------------------
(* State: what the last handled call received and answered.                *)

VARIABLES
    op,         \* the call handled last, or "pending" / "none"
    request,    \* the payload or query parameters of that call
    data,       \* the MeasurementRecord handed to calculate_lri, if any
    result,     \* the response: [status |-> 200, ...] or an error status
    invoked,    \* which of "simulator" and "scorer" the call has invoked
    twister,    \* the output stream of random.Random(seed), per seed
    memo        \* history: the first scored request and what it obtained

vars == << op, request, data, result, invoked, twister, memo >>

-----------------------------------------------------------------------------
(* _generate_data_from_coords(lat, lon, params): the data simulator.       *)

\* int(x): truncation toward zero
Trunc(x) == IF x[1] >= 0 THEN x[1] \div x[2] ELSE -((-x[1]) \div x[2])

\* seed = int(lat * 1000) + int(lon * 1000)
SeedOf(lat, lon) == Trunc(Mul(lat, I(1000))) + Trunc(Mul(lon, I(1000)))

\* a sky that is fully overcast everywhere, outside the range [0.05, 0.7]
\* of the interpolation
AlphaCloudAt_Overcast(lat, lon) == I(1)

\* alpha_cloud = np.interp((np.sin(lat / 10) + np.cos(lon / 10)) / 2,
\* [-1, 1], [0.05, 0.7]) to two decimals, tabulated for the coordinates the
\* requests use
AlphaCloudAt(lat, lon) ==
    CASE lat = I(35) /\ lon = I(127)               -> Rat(48, 100)
      [] lat = I(35) /\ lon = I(129)               -> Rat(47, 100)
      [] lat = I(37) /\ lon = I(127)               -> Rat(45, 100)
      [] lat = I(37) /\ lon = I(129)               -> Rat(44, 100)
      [] lat = Rat(358, 10) /\ lon = Rat(1268, 10) -> Rat(47, 100)
      [] lat = Rat(358, 10) /\ lon = I(127)        -> Rat(47, 100)
      [] lat = Rat(358, 10) /\ lon = Rat(1272, 10) -> Rat(47, 100)
      [] lat = I(36) /\ lon = Rat(1268, 10)        -> Rat(46, 100)
      [] lat = I(36) /\ lon = I(127)               -> Rat(46, 100)
      [] lat = I(36) /\ lon = Rat(1272, 10)        -> Rat(46, 100)
      [] lat = Rat(362, 10) /\ lon = Rat(1268, 10) -> Rat(46, 100)
      [] lat = Rat(362, 10) /\ lon = I(127)        -> Rat(46, 100)
      [] lat = Rat(362, 10) /\ lon = Rat(1272, 10) -> Rat(46, 100)

\* The Mersenne Twister is not computed: the values a generator returns are
\* a function of its seed alone, and the model ranges over such functions.
\* A stream lists the draws in the order the simulator makes them:
\* random() for nav_roll, then the six uniform() draws as the underlying
\* random() value in [0, 1), then the index rng.choice picks.
Streams == <<
    [roll |-> Rat(1, 50), u |-> << Zero, Zero, Zero, Zero, Zero, Zero >>,
     pick |-> 1],
    [roll |-> Rat(1, 50),
     u |-> << Rat(13, 14), Rat(8, 9), Rat(1, 2), Rat(1, 2), Zero,
              Rat(7, 8) >>,
     pick |-> 3],
    [roll |-> Rat(1, 5),
     u |-> << Rat(1, 2), Rat(1, 2), Zero, Zero, Rat(1, 7), Rat(1, 2) >>,
     pick |-> 2],
    [roll |-> Rat(1, 2), u |-> << Zero, Zero, Zero, Zero, Zero, Zero >>,
     pick |-> 1],
    [roll |-> Rat(1, 2),
     u |-> << Rat(4, 5), Rat(4, 5), Rat(1, 2), Rat(1, 2), Rat(4, 5),
              Rat(7, 8) >>,
     pick |-> 2],
    [roll |-> Rat(6, 25),
     u |-> << Zero, Zero, Rat(3, 4), Zero, Rat(3, 7), Rat(3, 4) >>,
     pick |-> 3] >>

\* rng.uniform(a, b) = a + (b - a) * random()
Uniform(a, b, r) == Add(a, Mul(Sub(b, a), r))

\* rng.choice([5, 30, 40])
CorePercentChoices == << I(5), I(30), I(40) >>

\* rng_of drawing from one generator shared by all calls, whose output
\* moves on once a request has been served
rng_of_Shared(lat, lon) ==
    LET k == twister[SeedOf(lat, lon)]
    IN  Streams[IF memo.key.endpoint = "none" THEN k
                ELSE (k % Len(Streams)) + 1]

\* the generator seeded with SeedOf(lat, lon): a fresh random.Random
rng_of(lat, lon) == Streams[twister[SeedOf(lat, lon)]]

generate_data_from_coords(lat, lon, params) ==
    LET rng            == rng_of(lat, lon)
        alpha_cloud == AlphaCloudAt(lat, lon)
        ctbt ==
            IF Lt(I(34), lat) /\ Lt(lat, I(36))
               /\ Lt(I(126), lon) /\ Lt(lon, I(128))
            THEN I(230) ELSE I(273)
        nav_roll == rng.roll
        hpl ==
            IF Lt(nav_roll, Rat(5, 100))
            THEN Add(I(AL_H), Uniform(I(1), I(15), rng.u[1]))
            ELSE IF Lt(nav_roll, Rat(25, 100))
            THEN Sub(I(AL_H), Uniform(I(10), I(20), rng.u[1]))
            ELSE Uniform(I(10), I(AL_H - 5), rng.u[1])
        vpl ==
            IF Lt(nav_roll, Rat(5, 100))
            THEN Add(I(AL_V), Uniform(I(1), I(10), rng.u[2]))
            ELSE IF Lt(nav_roll, Rat(25, 100))
            THEN Sub(I(AL_V), Uniform(I(10), I(20), rng.u[2]))
            ELSE Uniform(I(10), I(AL_V - 5), rng.u[2])
        mountains == Lt(Rat(1285, 10), lon)
        alpha_terrain0 ==
            IF mountains THEN Uniform(Rat(1, 10), Rat(3, 10), rng.u[3])
            ELSE Uniform(Rat(1, 100), Rat(5, 100), rng.u[3])
        r_och_neg ==
            IF mountains THEN Uniform(Rat(5, 100), Rat(1, 10), rng.u[4])
            ELSE Uniform(Zero, Rat(1, 100), rng.u[4])
        alpha_terrain ==
            IF params.wing_type = "rotary"
            THEN Mul(alpha_terrain0, Rat(12, 10)) ELSE alpha_terrain0
    IN  [actual_visibility   |-> Uniform(I(25), I(60), rng.u[5]),
         required_visibility |-> I(30),
         alpha_cloud         |-> alpha_cloud,
         CTBT                |-> ctbt,
         HPL                 |-> hpl,
         VPL                 |-> vpl,
         alpha_terrain       |-> alpha_terrain,
         r_och_neg           |-> r_och_neg,
         delta_sigma_0       |-> Uniform(Zero, I(4), rng.u[6]),
         core_percent        |-> CorePercentChoices[rng.pick]]

-----------------------------------------------------------------------------
(* Initial values and inputs.                                              *)

EmptyRecord == [k \in Fields |-> Absent]
NoResponse  == [status |-> 0]
NoRequest   == [endpoint |-> "none"]
NoMemo      == [key |-> NoRequest, between |-> FALSE]

\* coordinates of the score requests, and the seeds they lead to
ScoreLats  == {I(35), I(37)}
ScoreLons  == {I(127), I(129)}
ScoreSeeds == {SeedOf(lat, lon) : lat \in ScoreLats, lon \in ScoreLons}

\* the generators the score requests are checked with: each gives the
\* seeds different streams, and together they give every seed every stream
Twisters ==
    {[seed \in ScoreSeeds |-> (((seed \div 2000) + k) % Len(Streams)) + 1] :
        k \in 1..Len(Streams)}

-----------------------------------------------------------------------------
(* Input records for direct calls of calculate_lri.                        *)

\* the named scenarios written out at back.py lines 166-217
VeryGood ==
    [actual_visibility |-> I(60), required_visibility |-> I(30),
     alpha_cloud |-> Zero, HPL |-> I(AL_H), VPL |-> I(AL_V),
     alpha_terrain |-> Rat(1, 100), r_och_neg |-> Zero,
     delta_sigma_0 |-> Zero, core_percent |-> Zero, CTBT |-> I(273)]
Severe ==
    [actual_visibility |-> Rat(5, 100), required_visibility |-> I(30),
     alpha_cloud |-> Rat(99, 100), HPL |-> Rat(596, 10), VPL |-> I(50),
     alpha_terrain |-> Rat(9, 10), r_och_neg |-> Rat(1, 10),
     delta_sigma_0 |-> I(2), core_percent |-> I(10), CTBT |-> I(273)]
Warning ==
    [actual_visibility |-> I(1), required_visibility |-> I(30),
     alpha_cloud |-> Rat(892, 1000), HPL |-> I(78), VPL |-> I(50),
     alpha_terrain |-> Rat(1, 100), r_och_neg |-> Zero,
     delta_sigma_0 |-> Rat(1, 2), core_percent |-> I(5), CTBT |-> I(273)]
HardStopScenario ==
    [actual_visibility |-> I(50), required_visibility |-> I(30),
     alpha_cloud |-> Rat(5, 100), HPL |-> I(AL_H + 20), VPL |-> I(AL_V),
     alpha_terrain |-> Rat(5, 100), r_och_neg |-> Zero,
     delta_sigma_0 |-> I(4), core_percent |-> I(40), CTBT |-> I(230)]
Scenarios == {VeryGood, Severe, Warning, HardStopScenario}

\* every combination of a few values per field, Absent standing for the
\* field's default
GridRecords ==
    [actual_visibility   : {Absent, Zero, I(1), I(3), I(4)},
     required_visibility : {Absent, Zero},
     alpha_cloud         : {Absent, Zero, Rat(97, 100)},
     HPL                 : {Absent, I(60), Rat(786, 10), I(79),
                            Rat(7996, 100), I(83)},
     VPL                 : {Absent, I(50), I(51)},
     alpha_terrain       : {Absent, Zero, Rat(92, 100), Rat(925, 1000)},
     r_och_neg           : {Absent, Rat(999, 2000)},
     CTBT                : {Absent, I(230), I(235)},
     delta_sigma_0       : {Absent, I(3), Rat(7, 2)},
     core_percent        : {Absent, I(30)}]

Records == Scenarios \cup GridRecords

-----------------------------------------------------------------------------
(* Actions.                                                                *)

\* a record is handed to calculate_lri, which has not run yet
InitScorer ==
    /\ op = "pending"
    /\ request = NoRequest
    /\ data \in Records
    /\ result = NoResponse
    /\ invoked = {}
    /\ twister = [seed \in ScoreSeeds |-> 1]
    /\ memo = NoMemo

\* the direct call calculate_lri(data)
CallCalculateLri ==
    /\ op = "pending"
    /\ op' = "calculate_lri"
    /\ result' = calculate_lri(data)
    /\ invoked' = {"scorer"}
    /\ UNCHANGED << request, data, twister, memo >>

NextScorer == CallCalculateLri

SpecScorer == InitScorer /\ [][NextScorer]_vars

-----------------------------------------------------------------------------
(* POST /api/calculate_lri                                                 *)

\* payloads: a key the payload lacks is Absent (lat, lon) or "absent"
Payloads ==
    [endpoint  : {"calculate_lri"},
     lat       : ScoreLats \cup {Absent},
     lon       : ScoreLons \cup {Absent},
     uam_type  : {"absent", "drone"},
     wing_type : {"absent", "fixed"}]

\* payload.get(key, default) for the string-valued keys
GetStr(value, default) == IF value = "absent" THEN default ELSE value

ParamsOf(payload) ==
    [uam_type  |-> GetStr(payload.uam_type, "eVTOL"),
     wing_type |-> GetStr(payload.wing_type, "rotary")]

BadRequest == [status |-> 400]

\* the response body: the scorer's dict plus location and Evidence
ScoreResponse(lat, lon, dynamic_data, r) ==
    [status   |-> 200,
     LRI      |-> r.LRI,
     Grade    |-> r.Grade,
     W_score  |-> r.W_score,
     N_score  |-> r.N_score,
     T_score  |-> r.T_score,
     HardStop |-> r.HardStop,
     location |-> << Fmt4(lat), Fmt4(lon) >>,
     Evidence |->
        [HPL               |-> Fmt1(dynamic_data.HPL),
         VPL               |-> Fmt1(dynamic_data.VPL),
         N_score           |-> Fmt2(r.N_score),
         alpha_terrain     |-> Fmt2(dynamic_data.alpha_terrain),
         r_och_neg         |-> Fmt2(dynamic_data.r_och_neg),
         T_score           |-> Fmt2(r.T_score),
         alpha_cloud       |-> Fmt2(dynamic_data.alpha_cloud),
         actual_visibility |-> Fmt1(dynamic_data.actual_visibility),
         required_visibility |->
            Get(dynamic_data, "required_visibility", I(30)),
         CTBT              |-> dynamic_data.CTBT,
         W_score           |-> Fmt2(r.W_score)]]

\* what identifies a score request: the coordinates and the parameters
KeyOf(payload) ==
    [endpoint |-> payload.endpoint, lat |-> payload.lat, lon |-> payload.lon,
     params |-> ParamsOf(payload)]

\* history variable: the first scored request with the record and the
\* response it obtained, and whether a different request came after it
Remember(payload, dynamic_data, response) ==
    IF memo.key.endpoint = "none"
    THEN IF response.status = 200
         THEN [key |-> KeyOf(payload), data |-> dynamic_data,
               result |-> response, between |-> FALSE]
         ELSE memo
    ELSE IF memo.key = KeyOf(payload) THEN memo
    ELSE [memo EXCEPT !.between = TRUE]

\* the validation accepting a payload that has a lat, whatever its lon
MissingCoords_LatOnly(payload) == payload.lat = Absent

\* if lat is None or lon is None
MissingCoords(payload) == payload.lat = Absent \/ payload.lon = Absent

calculate_lri_endpoint(payload) ==
    /\ op' = "calculate_lri_endpoint"
    /\ request' = payload
    /\ twister' = twister
    /\ IF MissingCoords(payload)
       THEN /\ result' = BadRequest
            /\ data' = EmptyRecord
            /\ invoked' = {}
            /\ memo' = Remember(payload, EmptyRecord, BadRequest)
       ELSE IF payload.lat = Absent \/ payload.lon = Absent
       THEN \* int(None * 1000) raises TypeError inside the simulator
            /\ result' = InternalError
            /\ data' = EmptyRecord
            /\ invoked' = {"simulator"}
            /\ memo' = Remember(payload, EmptyRecord, InternalError)
       ELSE \E dynamic_data \in
                    {generate_data_from_coords(payload.lat, payload.lon,
                                               ParamsOf(payload))} :
            \E r \in {calculate_lri(dynamic_data)} :
            \E response \in
                    {IF r.status = 200
                     THEN ScoreResponse(payload.lat, payload.lon,
                                        dynamic_data, r)
                     ELSE r} :
                /\ result' = response
                /\ data' = dynamic_data
                /\ invoked' = {"simulator", "scorer"}
                /\ memo' = Remember(payload, dynamic_data, response)

Init ==
    /\ op = "none"
    /\ request = NoRequest
    /\ data = EmptyRecord
    /\ result = NoResponse
    /\ invoked = {}
    /\ twister \in Twisters
    /\ memo = NoMemo

Next == \E payload \in Payloads : calculate_lri_endpoint(payload)

Spec == Init /\ [][Next]_vars

-----------------------------------------------------------------------------
(* Properties of the scorer, checked under SpecScorer.                     *)

\* calculate_lri has run on data and returned a ScoreResult
Returned == op = "calculate_lri" /\ result.status = 200

\* the inputs of the hard-stop rule, taken from data with the defaults
InHPL  == Get(data, "HPL", I(35))
InVPL  == Get(data, "VPL", I(45))
InCTBT == Get(data, "CTBT", I(273))
InDS   == Get(data, "delta_sigma_0", Zero)
InCP   == Get(data, "core_percent", Zero)
OtherStopsFalse ==
    /\ ~Lt(InCTBT, I(235))
    /\ ~(Lt(I(3), InDS) /\ Le(I(30), InCP))

\* C1: whenever the hard-stop flag is true the grade is "RED (HARD STOP)",
\* whatever the LRI; a record with CTBT = 230 is graded hard-stop.
C1_HardStopPrecedence ==
    Returned =>
        /\ (result.HardStop => result.Grade = GradeHardStop)
        /\ (data.CTBT = I(230) => result.Grade = GradeHardStop)

\* C1 witness: CTBT = 230, no other hard-stop condition, LRI in the best
\* tier, and the grade is the hard-stop grade.
C1_Witness ==
    /\ Returned
    /\ data.CTBT = I(230)
    /\ ~(Lt(I(AL_H), InHPL) /\ Lt(I(AL_V), InVPL))
    /\ ~(Lt(I(3), InDS) /\ Le(I(30), InCP))
    /\ Le(I(TAU_YELLOW), result.LRI)
    /\ result.Grade = GradeHardStop

\* C2 (as claimed): every returned LRI lies in [0, 100], negative
\* navigation sub-scores included.
C2_LriInRange ==
    Returned => (Le(Zero, result.LRI) /\ Le(result.LRI, I(100)))

\* C3: the hard-stop flag is true exactly when CTBT < 235, or HPL > 40 and
\* VPL > 50, or delta_sigma_0 > 3.0 and core_percent >= 30.
C3_HardStopRule ==
    Returned =>
        (result.HardStop <=>
            \/ Lt(InCTBT, I(235))
            \/ (Lt(I(40), InHPL) /\ Lt(I(50), InVPL))
            \/ (Lt(I(3), InDS) /\ Le(I(30), InCP)))

\* C3 witness: only HPL exceeds its limit (VPL = 50 at the limit) and the
\* other conditions are false; the record is not a hard stop.
C3_Witness ==
    /\ Returned
    /\ Lt(I(40), InHPL)
    /\ InVPL = I(50)
    /\ OtherStopsFalse
    /\ ~result.HardStop

\* C4: without a hard stop the grade follows the LRI alone: LRI < 60 severe,
\* 60 <= LRI < 80 warning, LRI >= 80 best.
C4_GradeBoundaries ==
    (Returned /\ ~result.HardStop) =>
        /\ (Lt(result.LRI, I(60)) => result.Grade = GradeSevere)
        /\ ((Le(I(60), result.LRI) /\ Lt(result.LRI, I(80)))
                => result.Grade = GradeWarning)
        /\ (Le(I(80), result.LRI) => result.Grade = GradeBest)

\* C4 witness: an LRI of exactly 60 without a hard stop, graded warning.
C4_Witness ==
    /\ Returned
    /\ ~result.HardStop
    /\ result.LRI = I(60)
    /\ result.Grade = GradeWarning

\* C4, second boundary: an LRI of exactly 80 without a hard stop is reached.
C4_Witness80 ==
    /\ Returned
    /\ ~result.HardStop
    /\ result.LRI = I(80)
    /\ result.Grade = GradeBest

\* C5 (as claimed): the VeryGood record scores W = 100, N = 100, T = 19.8,
\* an LRI of approximately 99.75 (within 0.05), no hard stop, best tier.
C5_ExampleAsClaimed ==
    (Returned /\ data = VeryGood) =>
        /\ result.W_score = I(100)
        /\ result.N_score = I(100)
        /\ result.T_score = Rat(198, 10)
        /\ Le(Rat(9970, 100), result.LRI) /\ Le(result.LRI, Rat(9980, 100))
        /\ ~result.HardStop
        /\ result.Grade = GradeBest

\* C5 (amended): the VeryGood record scores W = 100, N = 100, T = 19.8,
\* an LRI of exactly 100 (100 / (0.45/100 + 0.35/100 + 0.20/99) is about
\* 9979.8 and min(100, .) clamps it), no hard stop, best tier.
C5_Example ==
    (Returned /\ data = VeryGood) =>
        /\ result.W_score = I(100)
        /\ result.N_score = I(100)
        /\ result.T_score = Rat(198, 10)
        /\ result.LRI = I(100)
        /\ ~result.HardStop
        /\ result.Grade = GradeBest

\* C5 witness: calculate_lri has returned for the VeryGood record.
C5_Witness == Returned /\ data = VeryGood /\ result.LRI = I(100)

\* the sub-scores of data as the composite uses them: W, N and the
\* normalised terrain score T / W_T, all on the 0-100 scale
SubW == WeatherScore(data)
SubN == NavigationScore(data)
SubT == Div(TerrainScore(data), W_T)
Positive(x)  == Lt(Zero, x)
\* a positive sub-score lowered to a tenth of a point or less
Collapsed(x) == Positive(x) /\ Le(x, Rat(1, 10))
Best(x)      == x = I(100)

\* C6 (as claimed): with the other two sub-scores at their best value, a
\* collapsed W, N or T puts the LRI below the severe threshold 60.
C6_DominatedAsClaimed ==
    Returned =>
        /\ (Collapsed(SubW) /\ Best(SubN) /\ Best(SubT)
                => Lt(result.LRI, I(TAU_RED)))
        /\ (Collapsed(SubN) /\ Best(SubW) /\ Best(SubT)
                => Lt(result.LRI, I(TAU_RED)))
        /\ (Collapsed(SubT) /\ Best(SubW) /\ Best(SubN)
                => Lt(result.LRI, I(TAU_RED)))

\* C6 (amended): with the other two sub-scores at their best value, a
\* collapsed W or N puts the LRI below 60; a collapsed T does not, because
\* T_safe is floored at 5: the LRI then stays at 100.
C6_Dominated ==
    Returned =>
        /\ (Collapsed(SubW) /\ Best(SubN) /\ Best(SubT)
                => Lt(result.LRI, I(TAU_RED)))
        /\ (Collapsed(SubN) /\ Best(SubW) /\ Best(SubT)
                => Lt(result.LRI, I(TAU_RED)))
        /\ (Collapsed(SubT) /\ Best(SubW) /\ Best(SubN)
                => result.LRI = I(100))

\* C6 witness: terrain collapsed with weather and navigation at their best.
C6_Witness ==
    /\ Returned
    /\ Collapsed(SubT) /\ Best(SubW) /\ Best(SubN)
    /\ result.LRI = I(100)

\* C6, the other two dimensions: collapsed weather, and collapsed navigation.
C6_WitnessW ==
    Returned /\ Collapsed(SubW) /\ Best(SubN) /\ Best(SubT)
        /\ Lt(result.LRI, I(TAU_RED))
C6_WitnessN ==
    Returned /\ Collapsed(SubN) /\ Best(SubW) /\ Best(SubT)
        /\ Lt(result.LRI, I(TAU_RED))

\* the arithmetic failures of the scorer: p / p_req with p_req = 0, and
\* W_W / W or W_N / N with a sub-score that is exactly 0
ArithmeticFailure ==
    \/ IsZero(Get(data, "required_visibility", I(30)))
    \/ IsZero(WeatherScore(data))
    \/ IsZero(NavigationScore(data))

ResultKeys == {"status", "LRI", "Grade", "W_score", "N_score", "T_score",
               "HardStop"}

\* C7: an arithmetic failure yields no ScoreResult but the error status 500;
\* every call ends in a complete result or in an error.
C7_ErrorOrComplete ==
    op = "calculate_lri" =>
        /\ (ArithmeticFailure => result = [status |-> 500])
        /\ \/ (result.status = 200 /\ DOMAIN result = ResultKeys)
           \/ (result.status = 500 /\ DOMAIN result = {"status"})

\* C7 witness: actual_visibility = 0 makes W exactly 0 and the call fails.
C7_Witness ==
    /\ op = "calculate_lri"
    /\ data.actual_visibility = Zero
    /\ ~IsZero(Get(data, "required_visibility", I(30)))
    /\ result = [status |-> 500]

-----------------------------------------------------------------------------
(* Properties of the score endpoint, checked under Spec.                   *)

Scored == op = "calculate_lri_endpoint"

\* C8: a score request whose payload lacks lat or lon is answered 400
\* before any computation: neither the simulator nor the scorer is invoked
\* and the response carries no result field.
C8_MissingCoordinates ==
    (Scored /\ (request.lat = Absent \/ request.lon = Absent)) =>
        /\ result = [status |-> 400]
        /\ invoked = {}
        /\ data = EmptyRecord

\* C8 witness: a request with lon but no lat has been rejected.
C8_Witness ==
    /\ Scored
    /\ request.lat = Absent /\ request.lon # Absent
    /\ result.status = 400

\* C9: a score request with the same (lat, lon, uam_type, wing_type) as an
\* earlier one obtains the same MeasurementRecord and the same response,
\* whatever was requested in between.
C9_Deterministic ==
    (Scored /\ memo.key = KeyOf(request)) =>
        /\ data = memo.data
        /\ result = memo.result

\* C9 witness: the first scored request is repeated after a different
\* request was served, and obtains the same response.
C9_Witness ==
    /\ Scored
    /\ memo.key = KeyOf(request)
    /\ memo.between
    /\ result.status = 200
    /\ result = memo.result

-----------------------------------------------------------------------------
(* get_lri_grid and get_map: the decaying grid around a point, the colour  *)
(* of each cell, and the search for a safer spot.  The polygons, the map   *)
(* tiles, the FIR boundary and the HTML are not modelled.                  *)

\* precision of the square roots: they are kept to 1/SqrtScale
SqrtScale == 1000

RECURSIVE ISqrt(_)
\* the integer square root, floor(sqrt(n))
ISqrt(n) ==
    IF n < 2 THEN n
    ELSE LET s == 2 * ISqrt(n \div 4)
         IN  IF (s + 1) * (s + 1) <= n THEN s + 1 ELSE s

\* np.sqrt(x), rounded to the nearest 1/SqrtScale
np_sqrt(x) ==
    LET n == Floor(Mul(x, I(4 * SqrtScale * SqrtScale)))
    IN  Rat((ISqrt(n) + 1) \div 2, SqrtScale)

\* a centre taken as grid_size / 2, which is no cell of an odd grid
center_offset_Half(grid_size) == Rat(grid_size, 2)

\* center_offset = (grid_size - 1) / 2
center_offset_of(grid_size) == Rat(grid_size - 1, 2)

\* range(grid_size) x range(grid_size)
Cells(grid_size) == (0..(grid_size - 1)) \X (0..(grid_size - 1))

\* the loop body of both grids: the LRI of cell (i, j)
cell_lri_of(grid_size, i, j, lri) ==
    LET center_offset == center_offset_of(grid_size)
        dist_x        == Sub(I(i), center_offset)
        dist_y        == Sub(I(j), center_offset)
        distance      == np_sqrt(Add(Mul(dist_x, dist_x),
                                     Mul(dist_y, dist_y)))
        max_dist      == np_sqrt(Mul(I(2), Mul(center_offset,
                                               center_offset)))
        decay_factor  == PyMax(Zero, Sub(I(1), Div(distance, max_dist)))
    IN  Mul(lri, decay_factor)

\* the features of a grid, as the lri property of each cell
Features(grid_size, lri) ==
    [c \in Cells(grid_size) |-> cell_lri_of(grid_size, c[1], c[2], lri)]

GridSizeLriGrid == 11
GridSizeMap     == 7

ColorSevere   == "#fdfd96"
ColorWarning  == "#aec6cf"
ColorBest     == "#77dd77"
ColorHardStop == "#ff6961"

\* the grade strings a map request carries: none, the empty string, the
\* four grades of the scorer, and a hard stop written in lower case
MapGrades ==
    {"absent", "", GradeBest, GradeWarning, GradeSevere, GradeHardStop,
     "red (hard stop)"}

\* grade and phrase in grade.upper()
Mentions(grade, phrase) ==
    CASE phrase = "HARD STOP" -> grade \in {GradeHardStop, "red (hard stop)"}
      [] phrase = "VERY GOOD" -> grade = GradeBest

\* style_function(feature): the fill colour of a cell
style_function(lri_val, lri, grade) ==
    LET color ==
            IF Lt(lri_val, I(TAU_RED)) THEN ColorSevere
            ELSE IF Lt(lri_val, I(TAU_YELLOW)) THEN ColorWarning
            ELSE ColorBest
        diff == Sub(lri_val, lri)
        is_center_cell ==
            Lt(IF Lt(diff, Zero) THEN Neg(diff) ELSE diff, Rat(1, 100))
    IN  IF is_center_cell /\ Mentions(grade, "HARD STOP")
        THEN ColorHardStop ELSE color

\* the 3x3 loop with the original point left in
SearchOffsets_WithCentre ==
    << << -1, -1 >>, << -1, 0 >>, << -1, 1 >>, << 0, -1 >>, << 0, 0 >>,
       << 0, 1 >>, << 1, -1 >>, << 1, 0 >>, << 1, 1 >> >>

\* for i in range(-1, 2): for j in range(-1, 2), without (0, 0)
SearchOffsets ==
    << << -1, -1 >>, << -1, 0 >>, << -1, 1 >>, << 0, -1 >>, << 0, 1 >>,
       << 1, -1 >>, << 1, 0 >>, << 1, 1 >> >>

SearchStep   == Rat(2, 10)
SearchParams == [uam_type |-> "eVTOL", wing_type |-> "rotary"]

NoSpot == [lat |-> Absent, lon |-> Absent, lri |-> Absent]

RECURSIVE SearchFrom(_, _, _, _, _)
\* the search loop from the k-th neighbour on: the spot it ends with, and
\* whether calculate_lri raised on the way
SearchFrom(lat, lon, k, highest_lri, best_spot) ==
    IF k > Len(SearchOffsets)
    THEN [raised |-> FALSE, best_spot |-> best_spot]
    ELSE LET search_lat    == Add(lat, Mul(I(SearchOffsets[k][1]),
                                           SearchStep))
             search_lon    == Add(lon, Mul(I(SearchOffsets[k][2]),
                                           SearchStep))
             search_result ==
                 calculate_lri(generate_data_from_coords(
                                   search_lat, search_lon, SearchParams))
         IN  IF search_result.status # 200
             THEN [raised |-> TRUE, best_spot |-> NoSpot]
             ELSE IF ~search_result.HardStop
                     /\ Lt(highest_lri, search_result.LRI)
             THEN SearchFrom(lat, lon, k + 1, search_result.LRI,
                             [lat |-> search_lat, lon |-> search_lon,
                              lri |-> search_result.LRI])
             ELSE SearchFrom(lat, lon, k + 1, highest_lri, best_spot)

\* a map without the choropleth
PlainMap ==
    [status |-> 200, choropleth |-> FALSE,
     features |-> Features(0, Zero), styles |-> [c \in {} |-> ""],
     searched |-> FALSE, best_spot |-> NoSpot]

\* coordinates, centre LRI values and generators of the grid requests
MapLats   == {I(36)}
MapLons   == {I(127)}
LriValues ==
    {I(-10), Zero, Rat(1, 200), I(50), I(TAU_RED), I(TAU_YELLOW), I(100),
     I(120)}
MapSeeds  ==
    {SeedOf(Add(lat, Mul(I(i), SearchStep)), Add(lon, Mul(I(j), SearchStep))) :
        lat \in MapLats, lon \in MapLons, i \in -1..1, j \in -1..1}

\* every seed on the same stream, or the seeds on successive streams
MapTwisters ==
    {[seed \in MapSeeds |-> k] : k \in 1..Len(Streams)}
    \cup {[seed \in MapSeeds |-> (((seed \div 200) + k) % Len(Streams)) + 1] :
            k \in 1..Len(Streams)}

MapRequests ==
    [endpoint : {"lri_grid"}, lat : MapLats, lon : MapLons,
     lri : LriValues, grade : {"absent"}]
    \cup [endpoint : {"map"}, lat : MapLats \cup {Absent},
          lon : MapLons \cup {Absent}, lri : LriValues \cup {Absent},
          grade : MapGrades]

InitMap ==
    /\ op = "pending"
    /\ request \in MapRequests
    /\ data = EmptyRecord
    /\ result = NoResponse
    /\ invoked = {}
    /\ twister \in MapTwisters
    /\ memo = NoMemo

get_lri_grid ==
    /\ op = "pending"
    /\ request.endpoint = "lri_grid"
    /\ op' = "get_lri_grid"
    /\ result' = [status |-> 200,
                  features |-> Features(GridSizeLriGrid, request.lri)]
    /\ UNCHANGED << request, data, invoked, twister, memo >>

get_map ==
    /\ op = "pending"
    /\ request.endpoint = "map"
    /\ op' = "get_map"
    /\ IF request.lat # Absent /\ request.lon # Absent
          /\ request.lri # Absent
       THEN \E features \in {Features(GridSizeMap, request.lri)} :
            \E search \in
                {IF request.grade \notin {"absent", ""}
                    /\ ~Mentions(request.grade, "VERY GOOD")
                 THEN SearchFrom(request.lat, request.lon, 1, request.lri,
                                 NoSpot)
                 ELSE [raised |-> FALSE, best_spot |-> NoSpot]} :
                /\ result' =
                     [status |-> 200, choropleth |-> TRUE,
                      features |-> features,
                      styles |->
                         [c \in Cells(GridSizeMap) |->
                             style_function(features[c], request.lri,
                                            request.grade)],
                      searched |-> request.grade \notin {"absent", ""}
                                   /\ ~Mentions(request.grade, "VERY GOOD"),
                      best_spot |-> search.best_spot]
                /\ invoked' =
                     IF request.grade \notin {"absent", ""}
                        /\ ~Mentions(request.grade, "VERY GOOD")
                     THEN {"simulator", "scorer"} ELSE {}
       ELSE /\ result' = PlainMap
            /\ invoked' = {}
    /\ UNCHANGED << request, data, twister, memo >>

NextMap == get_lri_grid \/ get_map

SpecMap == InitMap /\ [][NextMap]_vars

-----------------------------------------------------------------------------
(* Properties of the grids, checked under SpecMap.                         *)

GridBuilt ==
    \/ op = "get_lri_grid"
    \/ op = "get_map" /\ result.choropleth

GridSize == IF op = "get_lri_grid" THEN GridSizeLriGrid ELSE GridSizeMap

Centre  == (GridSize - 1) \div 2
Corners == {0, GridSize - 1} \X {0, GridSize - 1}

\* C10: in the 11x11 grid of get_lri_grid and the 7x7 grid of get_map the
\* centre cell has exactly the requested LRI, the four corner cells have
\* exactly 0, and every cell has lri * max(0, 1 - distance/max_dist), which
\* for a non-negative lri lies between 0 and lri.
C10_GridDecay ==
    GridBuilt =>
        /\ DOMAIN result.features = Cells(GridSize)
        /\ result.features[<< Centre, Centre >>] = request.lri
        /\ \A c \in Corners : result.features[c] = Zero
        /\ \A c \in Cells(GridSize) :
              LET dx == c[1] - Centre
                  dy == c[2] - Centre
                  decay_factor ==
                      PyMax(Zero,
                            Sub(I(1),
                                Div(np_sqrt(I(dx * dx + dy * dy)),
                                    np_sqrt(I(2 * Centre * Centre)))))
              IN  /\ result.features[c] = Mul(request.lri, decay_factor)
                  /\ Le(Zero, request.lri) =>
                        /\ Le(Zero, result.features[c])
                        /\ Le(result.features[c], request.lri)

\* C10 witness: a grid around a positive LRI with a cell strictly between
\* 0 and the centre LRI.
C10_Witness ==
    /\ op = "get_lri_grid"
    /\ request.lri = I(50)
    /\ result.features[<< Centre, Centre >>] = I(50)
    /\ Lt(Zero, result.features[<< Centre, 0 >>])
    /\ Lt(result.features[<< Centre, 0 >>], I(50))

\* C10 witness in get_map: the 7x7 grid with its centre and a corner.
C10_WitnessMap ==
    /\ op = "get_map"
    /\ result.choropleth
    /\ request.lri = I(100)
    /\ result.features[<< 3, 3 >>] = I(100)
    /\ result.features[<< 0, 6 >>] = Zero

-----------------------------------------------------------------------------
(* Properties of the safer-spot search and the cell colours, checked under *)
(* SpecMap.                                                                *)

ChoroplethDrawn == op = "get_map" /\ result.choropleth

\* a grade is supplied and it is not the best tier
GradeCallsForSearch ==
    /\ request.grade \notin {"absent", ""}
    /\ ~Mentions(request.grade, "VERY GOOD")

NeighbourLat(k) == Add(request.lat, Mul(I(SearchOffsets[k][1]), SearchStep))
NeighbourLon(k) == Add(request.lon, Mul(I(SearchOffsets[k][2]), SearchStep))

\* what the k-th neighbour scores
NeighbourScore(k) ==
    calculate_lri(generate_data_from_coords(NeighbourLat(k), NeighbourLon(k),
                                            SearchParams))

Neighbours == 1..Len(SearchOffsets)

\* neighbours that are not a hard stop
SafeNeighbours ==
    {k \in Neighbours :
        NeighbourScore(k).status = 200 /\ ~NeighbourScore(k).HardStop}

\* safe neighbours at or above the best-tier threshold
BestTierNeighbours ==
    {k \in SafeNeighbours : Le(I(TAU_YELLOW), NeighbourScore(k).LRI)}

\* safe neighbours that score better than the centre
BetterNeighbours ==
    {k \in SafeNeighbours : Lt(request.lri, NeighbourScore(k).LRI)}

\* the marked spot is the k-th neighbour
Marks(k) ==
    /\ result.best_spot.lat = NeighbourLat(k)
    /\ result.best_spot.lon = NeighbourLon(k)
    /\ result.best_spot.lri = NeighbourScore(k).LRI

\* C11: when the centre's grade is not the best tier, the search suggests
\* a neighbour in the best tier (LRI >= 80, not hard stop) whenever one
\* exists; otherwise a neighbour better than the centre if one exists.
C11_SaferSpotSuggested ==
    (ChoroplethDrawn /\ GradeCallsForSearch) =>
        IF BestTierNeighbours # {}
        THEN \E k \in BestTierNeighbours : Marks(k)
        ELSE BetterNeighbours # {} => \E k \in BetterNeighbours : Marks(k)

\* the case C11 fails in: a hard-stop centre whose LRI is 100 has a
\* best-tier neighbour, and no spot is marked
C11_NoSuggestion ==
    /\ ChoroplethDrawn
    /\ Mentions(request.grade, "HARD STOP")
    /\ request.lri = I(100)
    /\ BestTierNeighbours # {}
    /\ result.best_spot = NoSpot

\* the colour the thresholds alone give a cell
TierColor(lri_val) ==
    IF Lt(lri_val, I(TAU_RED)) THEN ColorSevere
    ELSE IF Lt(lri_val, I(TAU_YELLOW)) THEN ColorWarning
    ELSE ColorBest

MapCentre == << (GridSizeMap - 1) \div 2, (GridSizeMap - 1) \div 2 >>

\* C12: in the map choropleth the hard-stop colour is applied only to the
\* centre cell and only when the supplied grade is a hard-stop grade; every
\* other cell is coloured by its own decayed LRI (below 60 yellow, below 80
\* blue, otherwise green), for every centre LRI including 0 and near 0.
C12_RedOnlyCentre ==
    ChoroplethDrawn =>
        \A c \in Cells(GridSizeMap) :
            /\ result.styles[c] = ColorHardStop =>
                  (c = MapCentre /\ Mentions(request.grade, "HARD STOP"))
            /\ c # MapCentre =>
                  result.styles[c] = TierColor(result.features[c])

\* the case C12 fails in: with a centre LRI of 0 and a hard-stop grade a
\* corner cell is red
C12_RedCorner ==
    /\ ChoroplethDrawn
    /\ request.lri = Zero
    /\ result.styles[<< 0, 0 >>] = ColorHardStop

-----------------------------------------------------------------------------
(* Properties of the simulator's records, checked under Spec.              *)

\* a score request that passed the validation has been served
Simulated == Scored /\ ~MissingCoords(request)

\* C13: for every record the simulator produces the scorer raises no
\* computation error (W > 0 and N > 0), the composite is clamped to
\* LRI = 100.00, and the grade is the best tier or the hard stop, never
\* severe or warning.
C13_BestOrHardStopOnly ==
    Simulated =>
        /\ result.status = 200
        /\ Lt(Zero, result.W_score)
        /\ Lt(Zero, result.N_score)
        /\ result.LRI = I(100)
        /\ result.Grade \in {GradeBest, GradeHardStop}
        /\ result.Grade = GradeHardStop <=> result.HardStop

\* C13 witness: a served request graded in the best tier, whose record has
\* the protection levels of degraded navigation.
C13_Witness ==
    /\ Simulated
    /\ result.status = 200
    /\ result.Grade = GradeBest
    /\ result.LRI = I(100)
    /\ Lt(I(20), data.HPL)

\* C13 witness at the low end: the least visibility and protection levels
\* over the alert limits, a hard stop with LRI 100.
C13_WitnessHardStop ==
    /\ Simulated
    /\ result.Grade = GradeHardStop
    /\ result.LRI = I(100)
    /\ data.actual_visibility = I(25)
    /\ Lt(I(AL_H), data.HPL)

\* the requested coordinate lies in the simulated storm area
InStormArea ==
    /\ Lt(I(34), request.lat) /\ Lt(request.lat, I(36))
    /\ Lt(I(126), request.lon) /\ Lt(request.lon, I(128))

\* the navigation roll of the request took the hard-stop branch
NavHardStopRoll ==
    Lt(rng_of(request.lat, request.lon).roll, Rat(5, 100))

\* C14: a score request in the storm area (34 < lat < 36, 126 < lon < 128)
\* gets CTBT = 230 and is a hard stop graded "RED (HARD STOP)"; a request
\* whose navigation roll takes the hard-stop branch gets HPL > 40 and
\* VPL > 50 and is a hard stop as well.
C14_StormAndNavHardStop ==
    Simulated =>
        /\ InStormArea =>
              /\ data.CTBT = I(230)
              /\ result.status = 200
              /\ result.HardStop
              /\ result.Grade = GradeHardStop
        /\ NavHardStopRoll =>
              /\ Lt(I(AL_H), data.HPL)
              /\ Lt(I(AL_V), data.VPL)
              /\ result.status = 200
              /\ result.HardStop
              /\ result.Grade = GradeHardStop

\* C14 witness: a request in the storm area whose navigation and shear
\* are fine is a hard stop through CTBT alone.
C14_Witness ==
    /\ Simulated
    /\ InStormArea
    /\ ~NavHardStopRoll
    /\ Le(data.delta_sigma_0, I(3))
    /\ data.CTBT = I(230)
    /\ result.Grade = GradeHardStop

\* C14 witness for navigation: outside the storm area the hard-stop branch
\* of the roll gives a hard stop.
C14_WitnessNav ==
    /\ Simulated
    /\ ~InStormArea
    /\ NavHardStopRoll
    /\ data.CTBT = I(273)
    /\ result.Grade = GradeHardStop

-----------------------------------------------------------------------------
(* The marked spot of get_map, checked under SpecMap.                      *)

SpotMarked == op = "get_map" /\ result.best_spot # NoSpot

\* C15: get_map searches a safer spot only when a grade is supplied and it
\* is not the best tier; a marked spot is one of the 8 neighbours at
\* +/-0.2 degrees and never the centre, is not a hard stop, has an LRI
\* strictly greater than the requested lri and the highest LRI among the
\* neighbours that are not a hard stop; when no neighbour qualifies no
\* spot is marked.
C15_MarkedSpot ==
    op = "get_map" =>
        /\ (result.searched \/ invoked # {}) =>
              (ChoroplethDrawn /\ GradeCallsForSearch)
        /\ SpotMarked =>
              /\ result.searched
              /\ ~(result.best_spot.lat = request.lat
                    /\ result.best_spot.lon = request.lon)
              /\ \E i, j \in {-1, 1, 0} :
                    /\ << i, j >> # << 0, 0 >>
                    /\ result.best_spot.lat
                          = Add(request.lat, Mul(I(i), Rat(2, 10)))
                    /\ result.best_spot.lon
                          = Add(request.lon, Mul(I(j), Rat(2, 10)))
              /\ \E k \in SafeNeighbours :
                    /\ Marks(k)
                    /\ Lt(request.lri, NeighbourScore(k).LRI)
                    /\ \A n \in SafeNeighbours :
                          Le(NeighbourScore(n).LRI, NeighbourScore(k).LRI)
        /\ (result.searched /\ BetterNeighbours = {}) => ~SpotMarked

\* C15 witness: a search among neighbours of which some are hard stops
\* marks a neighbour that beats the centre.
C15_Witness ==
    /\ SpotMarked
    /\ result.searched
    /\ SafeNeighbours # {}
    /\ SafeNeighbours # Neighbours
    /\ Lt(request.lri, result.best_spot.lri)

\* C15 witness without a mark: a search in which no neighbour qualifies.
C15_WitnessNone ==
    /\ op = "get_map"
    /\ result.searched
    /\ BetterNeighbours = {}
    /\ ~SpotMarked

====
